---- MODULE Spec2Model ----
(***************************************************************************)
(* A model of web-serial-gsm: the Modem class (src/src/Modem.ts, lines     *)
(* 1-262) and the text handling of ATCommandSet (src/src/ATCommandSet.ts). *)
(*                                                                         *)
(* Text is a sequence of tokens: a token is a line break, a blank, a        *)
(* punctuation character or a word that no pattern of the code looks into  *)
(* ("OK", "ERROR", "AT").  An `await` on the transport, on the device's     *)
(* answer or on the timer is a point where a call is suspended: a call's   *)
(* position is pc[c], and one action runs the synchronous code between two *)
(* suspension points.  The device and the transport are the environment:   *)
(* the device answers a written command with one of Replies, the transport *)
(* hands the answer to the read loop in chunks cut between any two tokens. *)
(***************************************************************************)
EXTENDS Integers, Sequences, FiniteSets, TLC

\* ------------------------------------------------------------------ bounds
\* Calls the host makes on one Modem.
MaxCalls == 2
\* Ticks of the clock that make up modemConfig.timeout.
TimeoutTicks == 2
\* Tokens the transport holds that the read loop has not read yet.
MaxWire == 4
\* Timers pending at once: a listenUntilEnd starts when fewer are pending.
MaxTimers == 2
\* Segments of one sendSms (the length of the codec's pduList).
MaxSegments == 2

\* Items of one response handed to Sms.fromATResponse.
MaxItems == 3
\* Pieces of text before the success marker of a raw text that is parsed.
MaxPieces == 5

\* ------------------------------------------------------- ATCommandSet text
CR == <<"\r\n">>
OK == CR \o <<"OK">> \o CR
INP == <<">", " ">>
ERR == <<"ERROR">>

\* String.prototype.endsWith
EndsWith(s, e) ==
  /\ Len(s) >= Len(e)
  /\ SubSeq(s, Len(s) - Len(e) + 1, Len(s)) = e

\* String.prototype.includes
Includes(s, e) ==
  \E i \in 1..(Len(s) - Len(e) + 1) : SubSeq(s, i, i + Len(e) - 1) = e

\* The tokens String.prototype.trim removes.
IsSpace(ch) == ch \in {" ", "\r\n", "\r", "\n", "\t"}

RECURSIVE TrimStart(_)
TrimStart(s) ==
  IF s # <<>> /\ IsSpace(Head(s)) THEN TrimStart(Tail(s)) ELSE s

RECURSIVE TrimEnd(_)
TrimEnd(s) ==
  IF s # <<>> /\ IsSpace(s[Len(s)]) THEN TrimEnd(SubSeq(s, 1, Len(s) - 1)) ELSE s

\* String.prototype.trim
Trim(s) == TrimEnd(TrimStart(s))

\* What `res += buffer` appends when the chunk is the value undefined.
UndefinedText == <<"undefined">>

\* 'ERROR: Request Timed Out'
TimedOutText == ERR \o <<":", " ", "Request", " ", "Timed", " ", "Out">>

\* --------------------------------------------------------- values
\* null / undefined
NullV == [kind |-> "null"]
Str(s) == [kind |-> "string", value |-> s]

\* new ATError(res, at): the fields the model reads.
ATErrorOf(res) == [kind |-> "error", response |-> Trim(res)]

\* rawOutput.slice(0, -at.OK.length), for a rawOutput that ends with OK (the
\* code reads the items of no other response).
Body(raw) == SubSeq(raw, 1, Len(raw) - Len(OK))

RECURSIVE SplitRec(_, _, _, _)
SplitRec(s, cuts, start, p) ==
  IF p > Len(s) THEN << SubSeq(s, start, Len(s)) >>
  ELSE IF p \in cuts
       THEN << SubSeq(s, start, p - 1) >> \o SplitRec(s, cuts, p, p + 1)
       ELSE SplitRec(s, cuts, start, p + 1)

\* String.prototype.split on a zero-width pattern that matches before the
\* characters at the indexes in cuts (never before the first character).
Split(s, cuts) == IF s = <<>> THEN << <<>> >> ELSE SplitRec(s, cuts, 1, 2)

\* /(?=\r\n[\+\^])/g
ItemCuts(s) ==
  { p \in 2..Len(s) : /\ p + 1 <= Len(s)
                      /\ s[p] = "\r\n"
                      /\ s[p + 1] \in {"+", "^"} }

\* /(?<=(?:\r\n|: ))/g
FieldCuts(s) ==
  { p \in 2..Len(s) : \/ s[p - 1] = "\r\n"
                      \/ p >= 3 /\ s[p - 2] = ":" /\ s[p - 1] = " " }

\* /,/ as used by args.split(',')
RECURSIVE SplitComma(_)
SplitComma(s) ==
  IF \E i \in 1..Len(s) : s[i] = ","
  THEN LET i == CHOOSE j \in 1..Len(s) :
                  s[j] = "," /\ \A h \in 1..(j - 1) : s[h] # ","
       IN  << SubSeq(s, 1, i - 1) >> \o SplitComma(SubSeq(s, i + 1, Len(s)))
  ELSE << s >>

NonEmpty(s) == s # <<>>

\* The strings of args.split(','): the code converts none of them.
RECURSIVE MapStr(_)
MapStr(ss) == IF ss = <<>> THEN <<>> ELSE << Str(Head(ss)) >> \o MapStr(Tail(ss))

RECURSIVE MapTrim(_)
MapTrim(ss) == IF ss = <<>> THEN <<>> ELSE << Trim(Head(ss)) >> \o MapTrim(Tail(ss))

\* new ATResponseItem(item).  An absent command or data is the empty text:
\* a present one is never empty (the filter drops empty tokens).
ATResponseItemOf(item) ==
  LET raw == Trim(item)
      toks == SelectSeq(MapTrim(Split(raw, FieldCuts(raw))), NonEmpty)
      data == IF toks = <<>> THEN <<>> ELSE toks[Len(toks)]
      rest1 == IF toks = <<>> THEN <<>> ELSE SubSeq(toks, 1, Len(toks) - 1)
      command == IF rest1 = <<>> THEN <<>> ELSE Head(rest1)
      rest2 == IF rest1 = <<>> THEN <<>> ELSE Tail(rest1)
      args == IF rest2 = <<>> THEN <<>> ELSE MapStr(SplitComma(rest2[Len(rest2)]))
  IN  [rawOutput |-> raw, command |-> command, args |-> args, data |-> data]

RECURSIVE MapItem(_)
MapItem(ss) ==
  IF ss = <<>> THEN <<>> ELSE << ATResponseItemOf(Head(ss)) >> \o MapItem(Tail(ss))

\* The items of new ATResponse(rawOutput, at).
ItemsOf(raw) == MapItem(SelectSeq(Split(Body(raw), ItemCuts(Body(raw))), NonEmpty))

\* new ATResponse(rawOutput, at); its items are ItemsOf(rawOutput).
ATResponseOf(raw) ==
  [kind |-> "response", rawOutput |-> raw, ok |-> EndsWith(raw, OK)]

\* res?.items?.[0]?.data || null
FirstData(r) ==
  IF r.kind # "response" THEN NullV
  ELSE LET items == ItemsOf(r.rawOutput)
       IN  IF items = <<>> \/ items[1].data = <<>> THEN NullV
           ELSE Str(items[1].data)

\* The promise of listenUntilEnd: unsettled, or settled with [res, err].
Unsettled == [settled |-> FALSE, res |-> NullV, err |-> NullV]
Settled(r, e) == [settled |-> TRUE, res |-> r, err |-> e]

\* A resolve that settles the promise again.
ResolveAgain(cur, v) == v

\* resolve(v) of a promise whose state is cur: a settled promise keeps its value.
Resolve(cur, v) == IF cur.settled THEN cur ELSE v

\* A detector that looks for the error marker first.
DetectErrorFirst(res, end) ==
  IF Includes(res, ERR) THEN "Failure"
  ELSE IF EndsWith(res, end) THEN "Success"
  ELSE "Pending"

\* The listener's decision after `res += buffer` (lines 209-217).
Detect(res, end) ==
  IF EndsWith(res, end) THEN "Success"
  ELSE IF Includes(res, ERR) THEN "Failure"
  ELSE "Pending"

\* ------------------------------------------------------------------ Sms
\* What node-sms-pdu decodes from the data of one item (ParsedPdu, lines
\* 10-22): the fields Sms reads.  concat is null for a message of one part.
Concat(r, q) == [reference |-> r, sequence |-> q]
Pdu(c, o, t, ts, ty) ==
  [concat |-> c, origination |-> o, text |-> t, timestamp |-> ts, type |-> ty]

\* A comparator that leaves every pair as it is.
CompareNever(prev, curr) == 0

\* The comparator of the sort (lines 91-95).
Compare(prev, curr) ==
  IF prev.concat # NullV /\ curr.concat # NullV
  THEN prev.concat.sequence - curr.concat.sequence
  ELSE 0

\* Array.prototype.sort: stable, an element goes behind those the comparator
\* does not put behind it.
RECURSIVE InsertSorted(_, _)
InsertSorted(sorted, x) ==
  IF sorted = <<>> THEN <<x>>
  ELSE IF Compare(sorted[Len(sorted)], x) <= 0 THEN Append(sorted, x)
  ELSE Append(InsertSorted(SubSeq(sorted, 1, Len(sorted) - 1), x),
              sorted[Len(sorted)])

RECURSIVE SortSegments(_)
SortSegments(segments) ==
  IF segments = <<>> THEN <<>>
  ELSE InsertSorted(SortSegments(SubSeq(segments, 1, Len(segments) - 1)),
                    segments[Len(segments)])

\* reduce((acc, curr) => (acc += curr.pdu.text), '')
RECURSIVE ConcatText(_)
ConcatText(segments) ==
  IF segments = <<>> THEN <<>>
  ELSE Head(segments).text \o ConcatText(Tail(segments))

\* new Date(timestamp)
DateOf(ts) == [kind |-> "date", of |-> ts]

\* new Sms(segments) (lines 87-100): the sender is read before the sort, which
\* sorts the array in place; timestamp and type are read after it.
SmsOf(segments) ==
  LET sorted == SortSegments(segments)
  IN  [segments |-> sorted,
       sender |-> segments[1].origination,
       text |-> ConcatText(sorted),
       timestamp |-> DateOf(sorted[1].timestamp),
       type |-> sorted[1].type]

\* The items of one reference, in the order of the response.
SameReference(pdus, r) ==
  LET Has(p) == p.concat # NullV /\ p.concat.reference = r
  IN  SelectSeq(pdus, Has)

\* Sms.fromATResponse (lines 101-114): an item without concat is a message at
\* once; the others are collected by reference, and each collection is a
\* message when all items are read, in the order the references appeared.
RECURSIVE Singles(_)
Singles(pdus) ==
  IF pdus = <<>> THEN <<>>
  ELSE (IF Head(pdus).concat = NullV THEN << SmsOf(<<Head(pdus)>>) >> ELSE <<>>)
       \o Singles(Tail(pdus))

RECURSIVE Collected(_, _, _)
Collected(pdus, i, seen) ==
  IF i > Len(pdus) THEN <<>>
  ELSE IF pdus[i].concat = NullV \/ pdus[i].concat.reference \in seen
  THEN Collected(pdus, i + 1, seen)
  ELSE << SmsOf(SameReference(pdus, pdus[i].concat.reference)) >>
       \o Collected(pdus, i + 1, seen \cup {pdus[i].concat.reference})

FromATResponse(pdus) == Singles(pdus) \o Collected(pdus, 1, {})

\* What a call gave back to the host.
RetPending == [kind |-> "pending"]
Returned(v) == [kind |-> "returned", value |-> v]
Threw(what, text) == [kind |-> "threw", error |-> what, message |-> text]

\* ------------------------------------------------------ the environment
\* What the device may answer to one written command.
RepOk == OK
RepErr == ERR
RepEchoOk == ERR \o OK
RepItem == CR \o <<"^", "SCID", ":", " ", "89">> \o OK
RepPrompt == INP
RepJunk == <<"AT">>
RepNone == <<>>
Replies == {RepOk, RepErr, RepEchoOk, RepPrompt, RepJunk, RepNone}

\* ----------------------------------------------------------- commands
Cmd(name, a) == [name |-> name, arg |-> a]

\* boot (lines 113-119), then setScid and setImei (lines 127-136).
BootCmds ==
  << Cmd("AT", 0), Cmd("AT+CMGF=", 0), Cmd("AT+CMEE=", 1), Cmd("ATE", 0),
     Cmd("AT+CPMS=ME,ME", 0), Cmd("AT^SCID", 0), Cmd("AT+GSN", 0) >>
BootSteps == 5

Calls == 1..MaxCalls
Ops == {"connect", "reboot", "listMessages", "deleteSms", "sendSms",
        "sendUserInputCommand", "disconnect"}
MaxReq == IF 2 * MaxSegments > Len(BootCmds) THEN 2 * MaxSegments ELSE Len(BootCmds)
ReqIds == Calls \X (1..MaxReq)

VARIABLES
  status,      \* Modem._status
  statusLog,   \* the statusChange events emitted, in order
  portOpen,    \* the port is open: port.readable and port.writable are set
  closeCalls,  \* calls of port.close()
  writer,      \* Modem.writer: "unset", "open" or "closed"
  reading,     \* Modem.reading
  readerPc,    \* the read loop: "none", "reading" (at await read()), "stopped", "failed"
  readerDone,  \* the reader was cancelled: its read() resolves with done
  link,        \* the transport: "ok" or "broken"
  wire,        \* text the device sent that the read loop has not read
  stale,       \* history: how many of the first tokens of `wire` the device sent
               \* before the latest command was written
  scid, imei,  \* Modem.scid, Modem.imei
  op,          \* per call: the operation the host invoked, or "none"
  arg,         \* per call: the number of segments of a sendSms
  pc,          \* per call: where it is suspended
  reqNo,       \* per call: how many listenUntilEnd calls it has made
  res,         \* per call: `res` of its latest listenUntilEnd
  result,      \* per call: the promise of its latest listenUntilEnd
  wlog,        \* per call: the commands it wrote (its 'write' events)
  nresp,       \* per call: responses.length of a sendSms
  ret,         \* per call: what it gave back to the host
  listeners,   \* the listeners registered on 'modemResponse': <<call, request>>
  timers,      \* the pending setTimeout timers, oldest first: [req, t], t the
               \* ticks since setTimeout
  overlap,     \* history: the host started a call while another was unresolved
  input,       \* the argument of a function of ATCommandSet.ts applied on its own
  output       \* and what it returned (both null while the Modem runs)

portVars == <<portOpen, closeCalls, writer, reading, readerPc, readerDone, link>>
idVars == <<scid, imei>>
statusVars == <<status, statusLog>>
callVars == <<op, arg, pc, reqNo, res, result, wlog, nresp, ret>>
reqVars == <<listeners, timers>>
pureVars == <<input, output>>
modemVars == <<portVars, idVars, statusVars, callVars, reqVars, wire, stale, overlap>>
vars == <<portVars, idVars, statusVars, callVars, reqVars, wire, stale, overlap, pureVars>>

\* The Modem after construction (lines 36-64).
Constructed ==
  /\ status = "connecting"
  /\ statusLog = <<>>
  /\ portOpen = FALSE
  /\ closeCalls = 0
  /\ writer = "unset"
  /\ reading = TRUE
  /\ readerPc = "none"
  /\ readerDone = FALSE
  /\ link = "ok"
  /\ wire = <<>>
  /\ stale = 0
  /\ scid = NullV
  /\ imei = NullV
  /\ op = [c \in Calls |-> "none"]
  /\ arg = [c \in Calls |-> 0]
  /\ pc = [c \in Calls |-> "idle"]
  /\ reqNo = [c \in Calls |-> 0]
  /\ res = [c \in Calls |-> <<>>]
  /\ result = [c \in Calls |-> Unsettled]
  /\ wlog = [c \in Calls |-> <<>>]
  /\ nresp = [c \in Calls |-> 0]
  /\ ret = [c \in Calls |-> RetPending]
  /\ listeners = {}
  /\ timers = <<>>
  /\ overlap = FALSE

Init ==
  /\ Constructed
  /\ input = NullV
  /\ output = NullV

\* The terminator of call c's request k: sendSms waits for the input prompt
\* after the length command (line 190), everything else for OK.
End(c, k) == IF op[c] = "sendSms" /\ k % 2 = 1 THEN INP ELSE OK

\* `set status(val)`: assign, then emit statusChange (lines 53-56).
SetStatus(vals) ==
  /\ status' = vals[Len(vals)]
  /\ statusLog' = statusLog \o vals

\* An exception leaves call c: connect catches it and sets the status (lines
\* 82-85), every other operation rejects to its caller.  fromBoot: it was
\* thrown by checkBootError, which has set the status first (line 122).
Fail(c, what, text, fromBoot) ==
  /\ pc' = [pc EXCEPT ![c] = "done"]
  /\ IF op[c] = "connect"
     THEN /\ ret' = [ret EXCEPT ![c] = Returned(NullV)]
          /\ SetStatus(IF fromBoot THEN <<"disconnected", "disconnected">>
                                   ELSE <<"disconnected">>)
     ELSE /\ ret' = [ret EXCEPT ![c] = Threw(what, text)]
          /\ IF fromBoot THEN SetStatus(<<"disconnected">>)
                         ELSE UNCHANGED statusVars

\* sendCommand (lines 226-233), to its await of writer.write; the device
\* answers what was written.  sendUserInputCommand repeats it (lines 246-252).
SendCommand(c, cmd) ==
  IF ~portOpen \/ writer = "unset"
  THEN /\ Fail(c, "NotConnected", <<>>, FALSE)
       /\ UNCHANGED <<wlog, wire, stale>>
  ELSE /\ wlog' = [wlog EXCEPT ![c] = Append(@, cmd)]
       /\ UNCHANGED <<ret, statusVars>>
       /\ IF writer = "open" /\ link = "ok"
          THEN /\ pc' = [pc EXCEPT ![c] = "awaitWrite"]
               /\ \E r \in Replies :
                    /\ Len(wire) + Len(r) <= MaxWire
                    /\ wire' = wire \o r
                    /\ stale' = Len(wire)
          ELSE /\ pc' = [pc EXCEPT ![c] = "writeRejected"]
               /\ wire' = wire
               /\ stale' = stale

\* --------------------------------------------------------- the host
\* The host invokes its calls in the order of their numbers.
Fresh(c) ==
  /\ op[c] = "none"
  /\ \A d \in Calls : d < c => op[d] # "none"

Running(c) == op[c] # "none" /\ pc[c] # "done"

\* The operations the host starts while another call is unresolved: a
\* disconnect at any time, a single-request operation beside another one.
SingleOps == {"listMessages", "deleteSms", "sendUserInputCommand"}
MayOverlap(o, d) ==
  \/ o = "disconnect"
  \/ o \in SingleOps /\ op[d] \in SingleOps

Invoke(c, o, n) ==
  /\ Fresh(c)
  /\ \A d \in Calls : Running(d) => MayOverlap(o, d)
  /\ op' = [op EXCEPT ![c] = o]
  /\ arg' = [arg EXCEPT ![c] = n]
  /\ overlap' = (overlap \/ \E d \in Calls : Running(d))

\* connect (lines 74-76): to the await of port.open.
StartConnect(c) ==
  /\ Invoke(c, "connect", 0)
  /\ pc' = [pc EXCEPT ![c] = "awaitOpen"]
  /\ UNCHANGED <<portVars, idVars, statusVars, reqNo, res, result, wlog, nresp,
                 ret, reqVars, wire, stale>>
  /\ UNCHANGED pureVars

\* connect resumes with the port open (lines 77-79): startReader runs to its
\* first read(), startWriter sets the writer, boot writes its first command.
\* port.open rejects when the transport is broken or the port is open already.
ConnectOpened(c) ==
  /\ pc[c] = "awaitOpen"
  /\ IF link = "broken" \/ portOpen
     THEN /\ Fail(c, "TransportError", <<>>, FALSE)
          /\ UNCHANGED <<portVars, wlog, wire, stale>>
     ELSE /\ readerPc # "reading"
          /\ portOpen' = TRUE
          /\ reading' = TRUE
          /\ readerPc' = "reading"
          /\ readerDone' = FALSE
          /\ writer' = "open"
          /\ UNCHANGED <<closeCalls, link, ret, statusVars>>
          /\ wlog' = [wlog EXCEPT ![c] = Append(@, BootCmds[1])]
          /\ pc' = [pc EXCEPT ![c] = "awaitWrite"]
          /\ \E r \in Replies :
               /\ Len(wire) + Len(r) <= MaxWire
               /\ wire' = wire \o r
               /\ stale' = Len(wire)
  /\ UNCHANGED <<idVars, op, arg, reqNo, res, result, nresp, reqVars, overlap>>
  /\ UNCHANGED pureVars

\* reboot (line 88), listMessages (158), deleteSms (165), sendSms (189) and
\* sendUserInputCommand (246-252): to the await of the first write.
FirstCmd(o) ==
  CASE o = "reboot" -> BootCmds[1]
    [] o = "listMessages" -> Cmd("AT+CMGL=", 4)
    [] o = "deleteSms" -> Cmd("AT+CMGD=", 1)
    [] o = "sendSms" -> Cmd("AT+CMGS=", 1)
    [] o = "sendUserInputCommand" -> Cmd("AT", 0)

StartRequest(c, o, n) ==
  /\ Invoke(c, o, n)
  /\ SendCommand(c, FirstCmd(o))
  /\ UNCHANGED <<portVars, idVars, reqNo, res, result, nresp, reqVars>>
  /\ UNCHANGED pureVars

StartReboot(c) == StartRequest(c, "reboot", 0)
StartListMessages(c) == StartRequest(c, "listMessages", 0)
StartDeleteSms(c) == StartRequest(c, "deleteSms", 0)
StartSendSms(c) == \E n \in 1..MaxSegments : StartRequest(c, "sendSms", n)
StartUserInput(c) == StartRequest(c, "sendUserInputCommand", 0)

\* ------------------------------------------------- listenUntilEnd
\* The write resolved: listenUntilEnd (lines 201-225) starts with an empty
\* res, registers its listener and starts its timer.
WriteResolved(c) ==
  /\ pc[c] = "awaitWrite"
  /\ Len(timers) < MaxTimers
  /\ LET k == reqNo[c] + 1
     IN  /\ reqNo' = [reqNo EXCEPT ![c] = k]
         /\ listeners' = listeners \cup {<<c, k>>}
         /\ timers' = Append(timers, [req |-> <<c, k>>, t |-> 0])
  /\ res' = [res EXCEPT ![c] = <<>>]
  /\ result' = [result EXCEPT ![c] = Unsettled]
  /\ pc' = [pc EXCEPT ![c] = "listen"]
  /\ UNCHANGED <<portVars, idVars, statusVars, op, arg, wlog, nresp, ret, wire, stale,
                 overlap>>
  /\ UNCHANGED pureVars

\* writer.write rejected: the exception leaves the call.
WriteRejected(c) ==
  /\ pc[c] = "writeRejected"
  /\ Fail(c, "TransportError", <<>>, FALSE)
  /\ UNCHANGED <<portVars, idVars, op, arg, reqNo, res, result, wlog, nresp,
                 reqVars, wire, stale, overlap>>
  /\ UNCHANGED pureVars

\* The listener of call c is registered.
Listening(c) == <<c, reqNo[c]>> \in listeners

\* A listener that starts the timer anew on every chunk.
IsNot(r, e) == e.req # r
RestartTimer(q, r) ==
  LET IsOther(e) == IsNot(r, e)
  IN  Append(SelectSeq(q, IsOther), [req |-> r, t |-> 0])

\* What the listener of request r does to the timers: nothing (lines 207-218).
TimersOnChunk(q, r) == q

\* The listener of call c receives a chunk (lines 207-218).
ResAfter(c, chunk) == IF Listening(c) THEN res[c] \o chunk ELSE res[c]

Verdict(c, chunk) ==
  IF Listening(c) THEN Detect(ResAfter(c, chunk), End(c, reqNo[c])) ELSE "Pending"

ResultAfter(c, chunk) ==
  CASE Verdict(c, chunk) = "Success" ->
         Resolve(result[c], Settled(ATResponseOf(ResAfter(c, chunk)), NullV))
    [] Verdict(c, chunk) = "Failure" ->
         Resolve(result[c], Settled(NullV, ATErrorOf(ResAfter(c, chunk))))
    [] OTHER -> result[c]

\* A listener whose error branch forgets removeListener.
StaysRegisteredOnError(c, chunk) == Verdict(c, chunk) # "Success"

\* The listener of call c stays registered unless it resolved: both resolving
\* branches call removeListener (lines 210 and 215).
StaysRegistered(c, chunk) == Verdict(c, chunk) = "Pending"

RECURSIVE TimersAfter(_, _)
TimersAfter(q, cs) ==
  IF cs = {} THEN q
  ELSE LET c == CHOOSE x \in cs : \A y \in cs : x <= y
       IN  TimersAfter(IF Listening(c) THEN TimersOnChunk(q, <<c, reqNo[c]>>) ELSE q,
                       cs \ {c})

\* events.emit('modemResponse', chunk): every registered listener runs.
Emit(chunk) ==
  /\ res' = [c \in Calls |-> ResAfter(c, chunk)]
  /\ result' = [c \in Calls |-> ResultAfter(c, chunk)]
  /\ listeners' = {l \in listeners : StaysRegistered(l[1], chunk)}
  /\ timers' = TimersAfter(timers, Calls)

\* One turn of the read loop (lines 106-110): read() resolves with a chunk the
\* transport cut from the device's text, or with done after a cancel, or
\* rejects when the transport is broken.
ReadLoop ==
  /\ readerPc = "reading"
  /\ \/ /\ link = "broken"
        /\ readerPc' = "failed"
        /\ UNCHANGED <<res, result, reqVars, wire, stale>>
     \/ /\ link = "ok" /\ readerDone
        /\ Emit(UndefinedText)
        /\ readerPc' = IF reading THEN "failed" ELSE "stopped"
        /\ wire' = wire
        /\ stale' = stale
     \/ /\ link = "ok" /\ ~readerDone
        /\ \E n \in 1..Len(wire) :
             /\ Emit(SubSeq(wire, 1, n))
             /\ wire' = SubSeq(wire, n + 1, Len(wire))
             /\ stale' = IF stale > n THEN stale - n ELSE 0
        /\ readerPc' = IF reading THEN "reading" ELSE "stopped"
  /\ UNCHANGED <<portOpen, closeCalls, writer, reading, readerDone, link, idVars,
                 statusVars, op, arg, pc, reqNo, wlog, nresp, ret, overlap>>
  /\ UNCHANGED pureVars

\* Time passes; a timer that is due fires before more time passes.
Tick ==
  /\ timers # <<>>
  /\ \A i \in 1..Len(timers) : timers[i].t < TimeoutTicks
  /\ timers' = [i \in 1..Len(timers) |-> [timers[i] EXCEPT !.t = @ + 1]]
  /\ UNCHANGED <<portVars, idVars, statusVars, callVars, listeners, wire, stale, overlap>>
  /\ UNCHANGED pureVars

\* The setTimeout callback of request r (lines 220-223).  Timers of one
\* duration fire in the order they were set.
TimerFire(r) ==
  /\ timers # <<>>
  /\ Head(timers).req = r
  /\ Head(timers).t = TimeoutTicks
  /\ timers' = Tail(timers)
  /\ listeners' = listeners \ {r}
  /\ result' = [result EXCEPT ![r[1]] =
                  IF r[2] = reqNo[r[1]]
                  THEN Resolve(@, Settled(NullV, ATErrorOf(TimedOutText)))
                  ELSE @]
  /\ UNCHANGED <<portVars, idVars, statusVars, op, arg, pc, reqNo, res, wlog,
                 nresp, ret, wire, stale, overlap>>
  /\ UNCHANGED pureVars

\* ------------------------------------- the calls resume with a result
Resumable(c) == pc[c] = "listen" /\ result[c].settled

\* The await of listenUntilEnd resumed: nothing reads the promise or `res`
\* again.  The model keeps that the promise is settled, and whether with an
\* error, and forgets the rest.
Taken == [settled |-> TRUE, res |-> NullV, err |-> NullV, taken |-> TRUE]
TakenError == [Taken EXCEPT !.err = [kind |-> "error"]]
IsTaken(r) == r \in {Taken, TakenError}
Take(c) ==
  /\ result' = [result EXCEPT ![c] = IF @.err = NullV THEN Taken ELSE TakenError]
  /\ res' = [res EXCEPT ![c] = <<>>]

Finish(c, v) ==
  /\ pc' = [pc EXCEPT ![c] = "done"]
  /\ ret' = [ret EXCEPT ![c] = v]

\* A checkBootError that lets an error of the third step pass.
BootAbortsButThird(k, r) == k <= BootSteps /\ k # 3 /\ r.err # NullV

\* A boot that checks the identity reads as it checks its own steps.
BootAbortsOnIdentity(k, r) == r.err # NullV

\* checkBootError throws: the result of one of boot's five requests carries an
\* error (lines 114-118, 121).
BootAborts(k, r) == k <= BootSteps /\ r.err # NullV

\* boot, setScid, setImei as run by connect and reboot (lines 74-91, 113-136).
ResumeBoot(c) ==
  /\ op[c] \in {"connect", "reboot"}
  /\ Resumable(c)
  /\ Take(c)
  /\ LET k == reqNo[c]
         r == result[c]
     IN  IF BootAborts(k, r)
         THEN \* checkBootError (lines 120-125)
              /\ Fail(c, "FailedToBoot", r.err.response, TRUE)
              /\ UNCHANGED <<wlog, wire, stale, idVars>>
         ELSE IF k < Len(BootCmds)
         THEN /\ scid' = IF k = BootSteps + 1 THEN FirstData(r.res) ELSE scid
              /\ imei' = imei
              /\ SendCommand(c, BootCmds[k + 1])
         ELSE /\ imei' = FirstData(r.res)
              /\ scid' = scid
              /\ Finish(c, Returned(NullV))
              /\ UNCHANGED <<statusVars, wlog, wire, stale>>
  /\ UNCHANGED <<portVars, op, arg, reqNo, nresp, reqVars, overlap>>
  /\ UNCHANGED pureVars

\* listMessages (lines 159-162).
ResumeListMessages(c) ==
  /\ op[c] = "listMessages"
  /\ Resumable(c)
  /\ Take(c)
  /\ IF result[c].err # NullV
     THEN Fail(c, "Error", result[c].err.response, FALSE)
     ELSE Finish(c, Returned([kind |-> "messages", of |-> result[c].res]))
          /\ UNCHANGED statusVars
  /\ UNCHANGED <<portVars, idVars, op, arg, reqNo, wlog, nresp,
                 reqVars, wire, stale, overlap>>
  /\ UNCHANGED pureVars

\* deleteSms (line 166).
ResumeDeleteSms(c) ==
  /\ op[c] = "deleteSms"
  /\ Resumable(c)
  /\ Take(c)
  /\ Finish(c, Returned([res |-> result[c].res, err |-> result[c].err]))
  /\ UNCHANGED <<portVars, idVars, statusVars, op, arg, reqNo, wlog,
                 nresp, reqVars, wire, stale, overlap>>
  /\ UNCHANGED pureVars

\* sendSms (lines 187-199): request 2i-1 is the length command of segment i,
\* request 2i its payload.
ResumeSendSms(c) ==
  /\ op[c] = "sendSms"
  /\ Resumable(c)
  /\ Take(c)
  /\ LET k == reqNo[c]
         r == result[c]
         seg == (k + 1) \div 2
     IN  IF k % 2 = 1
         THEN IF r.err # NullV
              THEN /\ Finish(c, Returned([res |-> NullV, err |-> r.err]))
                   /\ UNCHANGED <<statusVars, wlog, wire, stale, nresp>>
              ELSE /\ SendCommand(c, Cmd("hex", seg))
                   /\ nresp' = nresp
         ELSE IF r.err # NullV
              THEN /\ Finish(c, Returned([res |-> [kind |-> "responses",
                                                  n |-> nresp[c]],
                                          err |-> r.err]))
                   /\ UNCHANGED <<statusVars, wlog, wire, stale, nresp>>
              ELSE /\ nresp' = [nresp EXCEPT ![c] =
                                  IF r.res # NullV THEN @ + 1 ELSE @]
                   /\ IF seg < arg[c]
                      THEN SendCommand(c, Cmd("AT+CMGS=", seg + 1))
                      ELSE /\ Finish(c, Returned([res |-> [kind |-> "responses",
                                                          n |-> nresp'[c]],
                                                  err |-> NullV]))
                           /\ UNCHANGED <<statusVars, wlog, wire, stale>>
  /\ UNCHANGED <<portVars, idVars, op, arg, reqNo, reqVars, overlap>>
  /\ UNCHANGED pureVars

\* sendUserInputCommand (lines 253-255).
ResumeUserInput(c) ==
  /\ op[c] = "sendUserInputCommand"
  /\ Resumable(c)
  /\ Take(c)
  /\ IF result[c].err # NullV
     THEN Fail(c, "Error", result[c].err.response, FALSE)
     ELSE Finish(c, Returned(result[c].res)) /\ UNCHANGED statusVars
  /\ UNCHANGED <<portVars, idVars, op, arg, reqNo, wlog, nresp,
                 reqVars, wire, stale, overlap>>
  /\ UNCHANGED pureVars

\* ------------------------------------------------------- disconnect
\* A disconnect that leaves the pending read() to the device.
ReaderLeftReading == FALSE

\* disconnect cancels the reader (line 236).
ReaderCancelled == TRUE

\* disconnect (lines 235-237): reading = false, reader?.cancel(), to the
\* await of readableStreamClosed.  The cancel discards what was not read and
\* makes the pending read() resolve with done.
StartDisconnect(c) ==
  /\ Invoke(c, "disconnect", 0)
  /\ reading' = FALSE
  /\ IF readerPc = "reading" /\ ReaderCancelled
     THEN readerDone' = TRUE /\ wire' = <<>> /\ stale' = 0
     ELSE UNCHANGED <<readerDone, wire, stale>>
  /\ pc' = [pc EXCEPT ![c] = "awaitReadClosed"]
  /\ UNCHANGED <<portOpen, closeCalls, writer, readerPc, link, idVars, statusVars,
                 reqNo, res, result, wlog, nresp, ret, reqVars>>
  /\ UNCHANGED pureVars

\* lines 240-241: writer?.close(), to the await of writableStreamClosed.
DisconnectReadClosed(c) ==
  /\ pc[c] = "awaitReadClosed"
  /\ writer' = IF writer = "unset" THEN "unset" ELSE "closed"
  /\ pc' = [pc EXCEPT ![c] = "awaitWriteClosed"]
  /\ UNCHANGED <<portOpen, closeCalls, reading, readerPc, readerDone, link, idVars,
                 statusVars, op, arg, reqNo, res, result, wlog, nresp, ret,
                 reqVars, wire, stale, overlap>>
  /\ UNCHANGED pureVars

\* line 242: port.close() is called.  The pipe to a broken transport has
\* failed, and awaiting it throws; closing a port that is not open either
\* resolves or rejects, as the transport decides.
DisconnectWriteClosed(c) ==
  /\ pc[c] = "awaitWriteClosed"
  /\ IF link = "broken" /\ writer # "unset"
     THEN /\ Fail(c, "TransportError", <<>>, FALSE)
          /\ UNCHANGED <<portOpen, closeCalls>>
     ELSE /\ closeCalls' = closeCalls + 1
          /\ portOpen' = FALSE
          /\ \E outcome \in IF portOpen THEN {"awaitPortClose"}
                            ELSE {"awaitPortClose", "portCloseRejected"} :
               pc' = [pc EXCEPT ![c] = outcome]
          /\ UNCHANGED <<ret, statusVars>>
  /\ UNCHANGED <<writer, reading, readerPc, readerDone, link, idVars, op, arg,
                 reqNo, res, result, wlog, nresp, reqVars, wire, stale, overlap>>
  /\ UNCHANGED pureVars

\* line 243: the port closed, the status is set.
DisconnectPortClosed(c) ==
  /\ pc[c] = "awaitPortClose"
  /\ SetStatus(<<"disconnected">>)
  /\ Finish(c, Returned(NullV))
  /\ UNCHANGED <<portVars, idVars, op, arg, reqNo, res, result, wlog, nresp,
                 reqVars, wire, stale, overlap>>
  /\ UNCHANGED pureVars

\* port.close() rejected: disconnect rejects before line 243.
DisconnectPortCloseRejected(c) ==
  /\ pc[c] = "portCloseRejected"
  /\ Fail(c, "TransportError", <<>>, FALSE)
  /\ UNCHANGED <<portVars, idVars, op, arg, reqNo, res, result, wlog, nresp,
                 reqVars, wire, stale, overlap>>
  /\ UNCHANGED pureVars

\* The transport fails: writes and reads reject from now on.
TransportFail ==
  /\ link = "ok"
  /\ link' = "broken"
  /\ wire' = <<>>
  /\ stale' = 0
  /\ UNCHANGED <<portOpen, closeCalls, writer, reading, readerPc, readerDone,
                 idVars, statusVars, callVars, reqVars, overlap>>
  /\ UNCHANGED pureVars

Next ==
  \/ \E c \in Calls : StartConnect(c)
  \/ \E c \in Calls : ConnectOpened(c)
  \/ \E c \in Calls : StartReboot(c)
  \/ \E c \in Calls : StartListMessages(c)
  \/ \E c \in Calls : StartDeleteSms(c)
  \/ \E c \in Calls : StartSendSms(c)
  \/ \E c \in Calls : StartUserInput(c)
  \/ \E c \in Calls : StartDisconnect(c)
  \/ \E c \in Calls : WriteResolved(c)
  \/ \E c \in Calls : WriteRejected(c)
  \/ \E c \in Calls : ResumeBoot(c)
  \/ \E c \in Calls : ResumeListMessages(c)
  \/ \E c \in Calls : ResumeDeleteSms(c)
  \/ \E c \in Calls : ResumeSendSms(c)
  \/ \E c \in Calls : ResumeUserInput(c)
  \/ \E c \in Calls : DisconnectReadClosed(c)
  \/ \E c \in Calls : DisconnectWriteClosed(c)
  \/ \E c \in Calls : DisconnectPortClosed(c)
  \/ \E c \in Calls : DisconnectPortCloseRejected(c)
  \/ ReadLoop
  \/ Tick
  \/ \E r \in ReqIds : TimerFire(r)
  \/ TransportFail

Spec == Init /\ [][Next]_vars

\* A session in use: the state a connect() leaves whose seven requests were
\* all answered with OK, once its timers have fired (SessionReached says so of
\* Spec).  The host's calls are those it makes from then on.
InitSession ==
  /\ status = "connecting"
  /\ statusLog = <<>>
  /\ portOpen = TRUE
  /\ closeCalls = 0
  /\ writer = "open"
  /\ reading = TRUE
  /\ readerPc = "reading"
  /\ readerDone = FALSE
  /\ link = "ok"
  /\ wire = <<>>
  /\ stale = 0
  /\ scid = NullV
  /\ imei = NullV
  /\ op = [c \in Calls |-> "none"]
  /\ arg = [c \in Calls |-> 0]
  /\ pc = [c \in Calls |-> "idle"]
  /\ reqNo = [c \in Calls |-> 0]
  /\ res = [c \in Calls |-> <<>>]
  /\ result = [c \in Calls |-> Unsettled]
  /\ wlog = [c \in Calls |-> <<>>]
  /\ nresp = [c \in Calls |-> 0]
  /\ ret = [c \in Calls |-> RetPending]
  /\ listeners = {}
  /\ timers = <<>>
  /\ overlap = FALSE
  /\ input = NullV
  /\ output = NullV

SessionSpec == InitSession /\ [][Next]_vars

\* Spec reaches the state InitSession describes, with the connect as call 1.
SessionReached ==
  /\ op[1] = "connect" /\ pc[1] = "done" /\ reqNo[1] = Len(BootCmds)
  /\ \A c \in Calls \ {1} : op[c] = "none"
  /\ status = "connecting" /\ statusLog = <<>>
  /\ portOpen /\ closeCalls = 0 /\ writer = "open"
  /\ reading /\ readerPc = "reading" /\ ~readerDone /\ link = "ok"
  /\ wire = <<>> /\ stale = 0 /\ scid = NullV /\ imei = NullV
  /\ listeners = {} /\ timers = <<>> /\ ~overlap

\* ------------------------------------------- Sms.fromATResponse on its own
\* The decoded items a response may hold.
References == {7, 8}
Sequences == {1, 2, 3}
Concats == {NullV} \cup {Concat(r, q) : r \in References, q \in Sequences}
Texts == {<<"hello", " ">>, <<"world">>}
Headers == {<<"+100", "t1", "deliver">>, <<"+200", "t2", "status">>}
Pdus == {Pdu(c, h[1], t, h[2], h[3]) : c \in Concats, h \in Headers, t \in Texts}
PduLists == UNION {[1..n -> Pdus] : n \in 0..MaxItems}

InitSms ==
  /\ Constructed
  /\ input \in {[kind |-> "pdus", of |-> l] : l \in PduLists}
  /\ output = NullV

\* listMessages hands the items of its response to Sms.fromATResponse
\* (Modem.ts, line 161).
ApplyFromATResponse ==
  /\ input.kind = "pdus"
  /\ output = NullV
  /\ output' = [kind |-> "messages", of |-> FromATResponse(input.of)]
  /\ UNCHANGED <<modemVars, input>>

SmsSpec == InitSms /\ [][ApplyFromATResponse]_vars

\* ------------------------------------------------ new ATResponse on its own
\* What the text before the success marker is made of.
Pieces ==
  { CR,
    <<" ">>,
    <<"hello">>,
    <<"+", "CSCA", ":", " ", "5">>,
    <<"^", "SCID", ":", " ", "89">>,
    <<"+", "CMGL", ":", " ", "1", ",", "0">> }

RECURSIVE Flatten(_)
Flatten(ps) == IF ps = <<>> THEN <<>> ELSE Head(ps) \o Flatten(Tail(ps))

RawTexts == {Flatten(ps) \o OK : ps \in UNION {[1..n -> Pieces] : n \in 0..MaxPieces}}

InitParse ==
  /\ Constructed
  /\ input \in {[kind |-> "text", of |-> raw] : raw \in RawTexts}
  /\ output = NullV

\* at.response(res) in the success branch of the listener (Modem.ts, line
\* 212): new ATResponse(res, at), with its items.
ApplyResponse ==
  /\ input.kind = "text"
  /\ output = NullV
  /\ output' = [kind |-> "response",
                ok |-> ATResponseOf(input.of).ok,
                items |-> ItemsOf(input.of)]
  /\ UNCHANGED <<modemVars, input>>

ParseSpec == InitParse /\ [][ApplyResponse]_vars

\* --------------------------------------------- listenUntilEnd on its own
\* The longest device output, in tokens.
MaxText == 4

\* What the device output is made of.
TextTokens == {"ERROR", "\r\n", "OK", ">", " "}

DeviceTexts == UNION {[1..n -> TextTokens] : n \in 1..MaxText}

\* The listener of listenUntilEnd run over the chunks of one device output,
\* in order, from the buffer buf (`res`; Modem.ts, lines 207-218); when the chunks
\* are used up and nothing resolved, the timer resolves (lines 220-223).
RECURSIVE ListenUntilEnd(_, _, _)
ListenUntilEnd(chunks, buf, end) ==
  IF chunks = <<>> THEN Settled(NullV, ATErrorOf(TimedOutText))
  ELSE LET r == buf \o Head(chunks)
       IN  CASE Detect(r, end) = "Success" -> Settled(ATResponseOf(r), NullV)
             [] Detect(r, end) = "Failure" -> Settled(NullV, ATErrorOf(r))
             [] OTHER -> ListenUntilEnd(Tail(chunks), r, end)

\* One device output, two ways the transport cuts it into chunks (a chunk
\* starts at each index in the cut set), and the terminator listened for.
InitChunks ==
  /\ Constructed
  /\ input \in {[kind |-> "chunked", text |-> t, a |-> a, b |-> b, end |-> e] :
                  t \in DeviceTexts, a \in SUBSET (2..MaxText),
                  b \in SUBSET (2..MaxText), e \in {OK, INP}}
  /\ \A p \in input.a \cup input.b : p <= Len(input.text)
  /\ output = NullV

ApplyListenUntilEnd ==
  /\ input.kind = "chunked"
  /\ output = NullV
  /\ output' = [kind |-> "outcomes",
                first |-> ListenUntilEnd(Split(input.text, input.a), <<>>, input.end),
                second |-> ListenUntilEnd(Split(input.text, input.b), <<>>, input.end)]
  /\ UNCHANGED <<modemVars, input>>

ChunkSpec == InitChunks /\ [][ApplyListenUntilEnd]_vars

\* The timers run: time passes and a due timer fires (setTimeout, line 220).
\* Nothing else is assumed of the scheduling.
FairSpec ==
  /\ Spec
  /\ WF_vars(Tick)
  /\ WF_vars(\E r \in ReqIds : TimerFire(r))

\* ------------------------------------------------------------ the claims
\* The promise of call c's latest listenUntilEnd is settled and not yet taken
\* by the resumed call.
Delivered(c) == result[c].settled /\ ~IsTaken(result[c])

TimeoutResult == Settled(NullV, ATErrorOf(TimedOutText))

\* The timer of request r is pending.
TimerPending(r) == \E i \in 1..Len(timers) : timers[i].req = r

\* C1: a listenUntilEnd resolves with exactly one of (Response, null) and
\* (null, ATError), and its listener is deregistered when it has resolved ...
C1_OneSlot ==
  \A c \in Calls :
    Delivered(c) =>
      /\ (result[c].res = NullV) # (result[c].err = NullV)
      /\ result[c].res # NullV => result[c].res.kind = "response"
      /\ result[c].err # NullV => result[c].err.kind = "error"
      /\ ~Listening(c)

\* ... and once it has resolved, no later chunk and no later timer changes the
\* result, the buffer or the registration, until the call resumes.
C1_LaterEventsChangeNothing ==
  \A c \in Calls :
    (result[c].settled /\ pc'[c] = pc[c]) =>
      /\ result'[c] = result[c]
      /\ res'[c] = res[c]
      /\ ~Listening(c)'

C1_ResolvesOnce == [](C1_OneSlot) /\ [][C1_LaterEventsChangeNothing]_vars

\* C1's case: a request resolved with a Response, and its timer has fired
\* since without changing it.
C1_Witness ==
  \E c \in Calls :
    /\ pc[c] = "listen"
    /\ Delivered(c)
    /\ result[c].res # NullV
    /\ ~TimerPending(<<c, reqNo[c]>>)

\* The text call c's listener has accumulated holds no terminal marker.
NoMarker(c) == ~EndsWith(res[c], End(c, reqNo[c])) /\ ~Includes(res[c], ERR)

\* The ticks the pending timer of request r has counted.
TimerT(r) == timers[CHOOSE i \in 1..Len(timers) : timers[i].req = r].t

\* C2: a send whose device never produces a terminal marker resolves, and with
\* the timeout error ...
C2_Resolves == \A c \in Calls : Listening(c) ~> result[c].settled

\* ... only by the timer that was started at registration, when it has counted
\* the whole timeout; a chunk leaves the timers as they are, and while the
\* listener is registered its timer only counts up.
C2_OnlyTheTimer ==
  \A c \in Calls :
    LET r == <<c, reqNo[c]>>
    IN  /\ (Listening(c) /\ res'[c] # res[c]) => timers' = timers
        /\ (Listening(c) /\ Listening(c)') =>
             /\ TimerPending(r) /\ TimerPending(r)'
             /\ TimerT(r)' \in {TimerT(r), TimerT(r) + 1}
        /\ (Listening(c) /\ result'[c].settled /\ NoMarker(c)') =>
             /\ result'[c] = TimeoutResult
             /\ Head(timers) = [req |-> r, t |-> TimeoutTicks]
             /\ timers' = Tail(timers)

C2_TimesOut == C2_Resolves /\ [][C2_OnlyTheTimer]_vars

\* C2's case: chunks without a terminal marker arrived, and the request
\* resolved with the timeout error.
C2_Witness ==
  \E c \in Calls :
    /\ Delivered(c)
    /\ result[c] = TimeoutResult
    /\ res[c] # <<>>
    /\ NoMarker(c)

\* C3: after a chunk is appended, a text that ends with the terminator
\* resolves the request with a Response, also when it contains ERROR;
\* otherwise a text that contains ERROR resolves it with an ATError and a null
\* response; otherwise the request stays pending and its listener registered.
C3_Chunk ==
  \A c \in Calls :
    (Listening(c) /\ res'[c] # res[c]) =>
      IF EndsWith(res'[c], End(c, reqNo[c]))
      THEN /\ result'[c] = Settled(ATResponseOf(res'[c]), NullV)
           /\ ~Listening(c)'
      ELSE IF Includes(res'[c], ERR)
      THEN /\ result'[c] = Settled(NullV, ATErrorOf(res'[c]))
           /\ result'[c].err # NullV
           /\ ~Listening(c)'
      ELSE /\ ~result'[c].settled
           /\ Listening(c)'

C3_Priority == [][C3_Chunk]_vars

\* C3's case: a text that contains ERROR and ends with the terminator has
\* resolved a request with a Response.
C3_Witness ==
  \E c \in Calls :
    /\ Delivered(c)
    /\ result[c].res # NullV
    /\ Includes(result[c].res.rawOutput, ERR)

\* C4, as claimed: whatever operations the host invokes, also one started
\* before an earlier one has resolved, at most one listener is registered.
C4_SingleFlightAlways == Cardinality(listeners) <= 1

\* C4, as the code has it: while the host has started every operation only
\* after the one before has resolved, at most one listener is registered, so a
\* chunk is appended to the buffer of at most one request.
C4_SingleFlightSequential ==
  /\ ~overlap => Cardinality(listeners) <= 1
  /\ \A l \in listeners : l[2] = reqNo[l[1]]

\* C4's case: the second of two operations invoked one after the other is
\* listening, after the first has made a request of its own.
C4_Witness ==
  /\ ~overlap
  /\ \E c, d \in Calls : c < d /\ reqNo[c] >= 1 /\ Listening(d)

BootOps == {"connect", "reboot"}
RequestOps == Ops \ {"connect", "disconnect"}

\* The await of call c's listenUntilEnd resumes in this step.
Resumes(c) == Resumable(c) /\ IsTaken(result'[c])

\* C5: boot writes its commands in the order of BootCmds, each one only when
\* the request before it has resolved, and without an error for a step of
\* boot; when a step of boot has resolved with an error the call ends there
\* with the status 'disconnected', reboot rejecting with the boot failure ...
C5_Step ==
  \A c \in Calls :
    op'[c] \in BootOps =>
      /\ wlog'[c] # wlog[c] =>
           /\ Len(wlog[c]) < Len(BootCmds)
           /\ wlog'[c] = Append(wlog[c], BootCmds[Len(wlog[c]) + 1])
           /\ Len(wlog[c]) >= 1 =>
                /\ Resumes(c)
                /\ reqNo[c] = Len(wlog[c])
                /\ reqNo[c] <= BootSteps => result[c].err = NullV
      /\ (Resumes(c) /\ reqNo[c] <= BootSteps /\ result[c].err # NullV) =>
           /\ wlog'[c] = wlog[c]
           /\ pc'[c] = "done"
           /\ status' = "disconnected"
           /\ statusLog' # statusLog
           /\ op[c] = "reboot" =>
                ret'[c] = Threw("FailedToBoot", result[c].err.response)
      /\ pc[c] = "done" => pc'[c] = "done" /\ wlog'[c] = wlog[c]

\* ... and a boot that failed at step k has written k commands, and the
\* status is 'disconnected' from then on.
C5_Aborted ==
  \A c \in Calls :
    (ret[c].kind = "threw" /\ ret[c].error = "FailedToBoot") =>
      /\ Len(wlog[c]) = reqNo[c]
      /\ reqNo[c] <= BootSteps
      /\ wlog[c] = SubSeq(BootCmds, 1, reqNo[c])
      /\ status = "disconnected"

C5_BootInOrder == [](C5_Aborted) /\ [][C5_Step]_vars

\* C5's case: the third step of a reboot resolved with an error; three
\* commands were written and no fourth.
C5_Witness ==
  \E c \in Calls :
    /\ op[c] = "reboot"
    /\ ret[c].kind = "threw" /\ ret[c].error = "FailedToBoot"
    /\ reqNo[c] = 3
    /\ wlog[c] = SubSeq(BootCmds, 1, 3)
    /\ status = "disconnected"

\* C6, as claimed: when a connect has completed, all its requests made and
\* none of them failed by the transport or a disconnect, the status is
\* 'connected' and a statusChange with 'connected' was emitted.
C6_BecomesConnected ==
  \A c \in Calls :
    ( /\ op[c] = "connect" /\ pc[c] = "done"
      /\ reqNo[c] = Len(BootCmds)
      /\ link = "ok"
      /\ \A d \in Calls : op[d] # "disconnect" ) =>
      /\ status = "connected"
      /\ \E i \in 1..Len(statusLog) : statusLog[i] = "connected"

\* C7: once disconnect has set `reading` to false, a registered listener
\* resolves ...
C7_Resolves == \A c \in Calls : (Listening(c) /\ ~reading) ~> result[c].settled

\* ... and only with the timeout error: what the read loop still emits, the
\* `undefined` of the cancelled read, resolves nothing.
C7_OnlyTheTimeout ==
  \A c \in Calls :
    (Listening(c) /\ ~reading /\ result'[c].settled) =>
      result'[c] = TimeoutResult

C7_DisconnectTimesOut == C7_Resolves /\ [][C7_OnlyTheTimeout]_vars

\* C7's case: a disconnect was called while a listener was registered, the
\* cancelled read delivered `undefined` to it, and the request resolved with
\* the timeout error.
C7_Witness ==
  \E c, d \in Calls :
    /\ op[d] = "disconnect"
    /\ ~reading
    /\ Delivered(c)
    /\ result[c] = TimeoutResult
    /\ Includes(res[c], UndefinedText)

\* C8, as claimed: a disconnect called after a disconnect has completed
\* completes without an error, closes the port no further time and emits no
\* further statusChange.
C8_Idempotent ==
  \A d \in Calls :
    ( /\ d > 1
      /\ ~overlap
      /\ \A e \in 1..d : op[e] = "disconnect"
      /\ ret[1] = Returned(NullV) ) =>
      /\ closeCalls = 1
      /\ statusLog = <<"disconnected">>
      /\ ret[d].kind # "threw"

\* C9, as claimed: when the transport has failed, an operation whose write
\* was rejected has rejected to its caller with the status 'disconnected', and
\* a read loop whose read() was rejected has left the status 'disconnected'.
C9_TransportFailureDisconnects ==
  /\ \A c \in Calls :
       ( /\ op[c] \in RequestOps
         /\ link = "broken"
         /\ ret[c].kind = "threw" /\ ret[c].error = "TransportError" ) =>
         status = "disconnected"
  /\ readerPc = "failed" => status = "disconnected"

\* C10, as claimed: listMessages and sendUserInputCommand never reject with
\* the error their request resolved with.
C10_ErrorsAreReturned ==
  \A c \in Calls :
    op[c] \in {"listMessages", "sendUserInputCommand"} =>
      ~(ret[c].kind = "threw" /\ ret[c].error = "Error")

\* C11, as claimed: a sendSms that failed on segment k, at the length command
\* or at the payload, has returned the error with the responses of the k-1
\* segments sent before (request 2k-1 is the length command of segment k,
\* request 2k its payload).
C11_ReportsSentSegments ==
  \A c \in Calls :
    ( /\ op[c] = "sendSms"
      /\ ret[c].kind = "returned"
      /\ ret[c].value.err # NullV ) =>
      ret[c].value.res = [kind |-> "responses", n |-> (reqNo[c] - 1) \div 2]

\* The items are the parts of one message: they have one reference and
\* sequence numbers that differ.
PartsOfOne(pdus) ==
  /\ pdus # <<>>
  /\ \A i \in 1..Len(pdus) :
       /\ pdus[i].concat # NullV
       /\ pdus[i].concat.reference = pdus[1].concat.reference
  /\ \A i, j \in 1..Len(pdus) :
       i # j => pdus[i].concat.sequence # pdus[j].concat.sequence

\* The item of the lowest sequence number among those at the indexes in ix.
Lowest(pdus, ix) ==
  CHOOSE i \in ix : \A j \in ix : pdus[i].concat.sequence <= pdus[j].concat.sequence

\* The texts of the items at the indexes in ix, by ascending sequence number.
RECURSIVE TextBySequence(_, _)
TextBySequence(pdus, ix) ==
  IF ix = {} THEN <<>>
  ELSE pdus[Lowest(pdus, ix)].text
       \o TextBySequence(pdus, ix \ {Lowest(pdus, ix)})

\* Sms.fromATResponse has returned.
Reassembled == input.kind = "pdus" /\ output # NullV

\* C12: from the parts of one message, in whatever order they stand in the
\* response, Sms.fromATResponse makes one message, whose text is the texts of
\* the parts by ascending sequence number.
C12_OrderInvariant ==
  (Reassembled /\ PartsOfOne(input.of)) =>
    /\ Len(output.of) = 1
    /\ output.of[1].text = TextBySequence(input.of, DOMAIN input.of)

\* C12's case: 'world' with sequence 2 arrived before 'hello ' with sequence
\* 1, both of reference 7, and the message reads 'hello world'.
C12_Witness ==
  /\ Reassembled
  /\ Len(input.of) = 2
  /\ input.of[1].concat = Concat(7, 2) /\ input.of[1].text = <<"world">>
  /\ input.of[2].concat = Concat(7, 1) /\ input.of[2].text = <<"hello", " ">>
  /\ Len(output.of) = 1
  /\ output.of[1].text = <<"hello", " ", "world">>

\* C13, as claimed: a message of several parts has the sender, the timestamp
\* and the type of its part of the lowest sequence number, and its segments
\* stand by ascending sequence number.
C13_FieldsOfLowest ==
  (Reassembled /\ PartsOfOne(input.of) /\ Len(input.of) >= 2) =>
    LET first == input.of[Lowest(input.of, DOMAIN input.of)]
        sms == output.of[1]
    IN  /\ sms.sender = first.origination
        /\ sms.timestamp = DateOf(first.timestamp)
        /\ sms.type = first.type
        /\ \A i, j \in 1..Len(sms.segments) :
             i < j => sms.segments[i].concat.sequence < sms.segments[j].concat.sequence

\* C14: when the SIM id or the IMEI request of a connect or reboot has
\* resolved with an error (no disconnect having been called), the resumed call
\* leaves the status as it is and sets the field to null; after the SIM id it
\* writes the IMEI command, after the IMEI it completes without an error.
C14_Step ==
  \A c \in Calls :
    ( /\ op[c] \in BootOps
      /\ Resumes(c)
      /\ reqNo[c] > BootSteps
      /\ result[c].err # NullV
      /\ \A d \in Calls : op[d] # "disconnect" ) =>
      /\ status' = status
      /\ statusLog' = statusLog
      /\ ret'[c].kind # "threw"
      /\ reqNo[c] = BootSteps + 1 =>
           /\ scid' = NullV
           /\ wlog'[c] = Append(wlog[c], BootCmds[BootSteps + 2])
           /\ pc'[c] # "done"
      /\ reqNo[c] = BootSteps + 2 =>
           /\ imei' = NullV
           /\ pc'[c] = "done"
           /\ ret'[c] = Returned(NullV)

C14_IdentityIsOptional == [][C14_Step]_vars

\* C14's case: a reboot read a SIM id, its IMEI request resolved with an
\* error, and it completed with the status unchanged and no IMEI.
C14_Witness ==
  \E c \in Calls :
    /\ op[c] = "reboot"
    /\ pc[c] = "done"
    /\ reqNo[c] = Len(BootCmds)
    /\ result[c] = TakenError
    /\ ret[c] = Returned(NullV)
    /\ scid # NullV
    /\ imei = NullV
    /\ status = "connecting"

\* new ATResponse has returned.
Parsed == input.kind = "text" /\ output # NullV

\* The substrings of a text that start at a line break followed by + or ^.
Sentinels(raw) ==
  Cardinality({p \in 1..(Len(raw) - 1) : raw[p] = "\r\n" /\ raw[p + 1] \in {"+", "^"}})

\* C15, as claimed: the response of a text that ends with the success marker
\* is ok and has as many items as the text has substrings that start at a
\* line break followed by + or ^.
C15_ItemPerSentinel ==
  Parsed => /\ output.ok
            /\ Len(output.items) = Sentinels(input.of)

\* The text of C16: "\r\n+CSCA: 5\r\nhello\r\n\r\nOK\r\n".
CscaText == CR \o <<"+", "CSCA", ":", " ", "5">> \o CR \o <<"hello">> \o CR \o OK

\* C16, as claimed: that text has one item, with the data 'hello' and the
\* one argument 5, a number.
C16_NumericArgs ==
  (Parsed /\ input.of = CscaText) =>
    /\ Len(output.items) = 1
    /\ output.items[1].data = <<"hello">>
    /\ Len(output.items[1].args) = 1
    /\ output.items[1].args[1].kind = "number"

\* The chunk the read loop reads and emits in this step, or the empty text.
ChunkRead ==
  IF /\ readerPc = "reading" /\ link = "ok" /\ link' = "ok"
     /\ ~readerDone /\ ~readerDone'
     /\ Len(wire') < Len(wire)
  THEN SubSeq(wire, 1, Len(wire) - Len(wire'))
  ELSE <<>>

\* Call c has written a command and has no result of it yet.
RequestPending(c) ==
  \/ pc[c] = "awaitWrite"
  \/ pc[c] = "listen" /\ ~result[c].settled

\* C17, as claimed: a chunk the read loop emits while a call has written its
\* command and has no result yet goes to the listener of that request: it is
\* appended to the request's buffer.
C17_Chunk ==
  \A c \in Calls :
    (RequestPending(c) /\ ChunkRead # <<>>) =>
      /\ Listening(c)
      /\ res'[c] = res[c] \o ChunkRead

C17_NoChunkLost == [][C17_Chunk]_vars

TimedOut == Returned([res |-> NullV, err |-> ATErrorOf(TimedOutText)])

\* C18, as claimed: when a deleteSms has returned the timeout error and the
\* host has then started the next operation, no text the device sent before
\* that operation's latest command was written is appended to the buffer of
\* its request.
C18_Chunk ==
  \A d \in Calls \ {1} :
    ( /\ ~overlap
      /\ op[d - 1] = "deleteSms" /\ ret[d - 1] = TimedOut
      /\ Listening(d)
      /\ ChunkRead # <<>> ) =>
      stale = 0

C18_OwnReplyOnly == [][C18_Chunk]_vars

\* C20, as claimed: whenever listenUntilEnd has resolved with a Response, for
\* either terminator, that Response has ok = true.
C20_ResponseIsOk ==
  \A c \in Calls :
    (result[c].settled /\ result[c].res.kind = "response") => result[c].res.ok

\* C19, as claimed: two chunkings of the same device output, both delivered
\* before the timer fires, make listenUntilEnd resolve with the same kind of
\* result and the same raw text.
C19_ChunkingIndependent ==
  output.kind = "outcomes" => output.first = output.second
====
